---- MODULE Spec2Model ----
(***************************************************************************)
(* A model of src/main.py (class PerfTool): one run of the record ->       *)
(* annotate -> stat pipeline.  Strings that the code builds, splits or     *)
(* formats are sequences of pieces (characters or atomic words), so that   *)
(* str(), int(), split(), join() and os.path.join() are computed and not   *)
(* assumed.  A command is a sequence of such strings (one per token).      *)
(***************************************************************************)
EXTENDS Integers, Sequences, FiniteSets, TLC

(* ------------------------------ bounds --------------------------------- *)

\* longest perf_stat_cpu_range string enumerated by InitCpu
MaxRangeLen == 4
\* longest event list enumerated by InitRecord
MaxEvents == 2

(* ------------------------- Python string helpers ----------------------- *)

DigitChars == <<"0", "1", "2", "3", "4", "5", "6", "7", "8", "9">>

IsDigit(c) == \E d \in 1..10 : DigitChars[d] = c

DigitVal(c) == (CHOOSE d \in 1..10 : DigitChars[d] = c) - 1

\* str(n) for a non-negative int
RECURSIVE ToStr(_)
ToStr(n) == IF n < 10 THEN <<DigitChars[n + 1]>>
            ELSE ToStr(n \div 10) \o <<DigitChars[(n % 10) + 1]>>

\* int(s) succeeds (no ValueError) on the strings the model enumerates
IsInt(s) == Len(s) > 0 /\ \A i \in 1..Len(s) : IsDigit(s[i])

\* int(s) for a string of decimal digits
RECURSIVE ParseInt(_)
ParseInt(s) == IF Len(s) = 0 THEN 0
               ELSE 10 * ParseInt(SubSeq(s, 1, Len(s) - 1)) + DigitVal(s[Len(s)])

\* s.split(sep): the parts of s between occurrences of the piece sep
RECURSIVE Split(_, _)
Split(s, sep) ==
    IF \E i \in 1..Len(s) : s[i] = sep
    THEN LET p == CHOOSE i \in 1..Len(s) : s[i] = sep /\ \A j \in 1..(i - 1) : s[j] # sep
         IN  <<SubSeq(s, 1, p - 1)>> \o Split(SubSeq(s, p + 1, Len(s)), sep)
    ELSE <<s>>

\* sep.join(parts)
RECURSIVE Join(_, _)
Join(parts, sep) ==
    IF Len(parts) = 0 THEN <<>>
    ELSE IF Len(parts) = 1 THEN parts[1]
    ELSE parts[1] \o <<sep>> \o Join(Tail(parts), sep)

\* os.path.join(a, b) for a relative b
PathJoin(a, b) ==
    IF Len(a) = 0 THEN b
    ELSE IF a[Len(a)] = "/" THEN a \o b
    ELSE a \o <<"/">> \o b

\* range(start, stop) as a sequence
Range(start, stop) ==
    IF stop > start THEN [i \in 1..(stop - start) |-> start + i - 1] ELSE <<>>

(* --------------------------- configurations ---------------------------- *)

WorkloadDefault == <<"bench", " ", "futex", " ", "hash">>

AllLiteral == <<"a", "l", "l">>

Timestamps == {"20240102_030405"}

EventNames == {<<"cycles">>, <<"instructions">>}

RECURSIVE SeqsUpTo(_, _)
SeqsUpTo(S, n) ==
    IF n = 0 THEN {<<>>}
    ELSE LET shorter == SeqsUpTo(S, n - 1)
         IN  shorter \cup {Append(s, x) : s \in {t \in shorter : Len(t) = n - 1}, x \in S}

RangeAlphabet == {"0", "1", "3", "-", "x"}

required_keys == {"perf_record_frequency", "perf_record_duration", "perf_stat_duration"}

\* a mapping with the keys in D only (a key that is absent from the YAML file)
Restrict(f, D) == [k \in (D \cap DOMAIN f) |-> f[k]]

BaseConfig ==
    [ output_directory       |-> <<"out">>,
      perf_record_frequency  |-> 99,
      perf_record_duration   |-> 30,
      perf_record_events     |-> <<<<"cycles">>, <<"instructions">>>>,
      perf_record_workload   |-> <<"ls", " ", "-l">>,
      use_perf_annotation    |-> TRUE,
      perf_stat_duration     |-> 10,
      perf_stat_count_deltas |-> 500,
      perf_stat_events       |-> <<<<"cycles">>>>,
      perf_stat_cpu_range    |-> <<"0", "-", "3">>,
      perf_stat_all_threads  |-> FALSE,
      perf_stat_workload     |-> <<"ls", " ", "-l">> ]

\* configurations that vary what decides the orchestration
OrchConfigs ==
    { Restrict([[BaseConfig EXCEPT !.use_perf_annotation = a] EXCEPT !.perf_stat_cpu_range = r],
               R \cup O)
        : a \in BOOLEAN,
          r \in {AllLiteral, <<"0", "-", "3">>, <<"3", "-", "0">>, <<"x", "-", "y">>},
          R \in SUBSET required_keys,
          O \in SUBSET {"use_perf_annotation", "perf_stat_cpu_range"} }

\* configurations that vary what the record command is built from
RecordConfigs ==
    { Restrict([BaseConfig EXCEPT !.perf_record_frequency = f,
                                  !.perf_record_duration = d,
                                  !.perf_record_events = e,
                                  !.perf_record_workload = w,
                                  !.output_directory = o],
               required_keys \cup {"perf_stat_cpu_range"} \cup O)
        : f \in {7, 99}, d \in {0, 30},
          e \in SeqsUpTo(EventNames, MaxEvents),
          w \in {<<"ls", " ", "-l">>, <<"sleep">>},
          o \in {<<"out">>, <<"out", "/">>, <<>>},
          O \in SUBSET {"perf_record_events", "perf_record_workload", "output_directory"} }

\* configurations that vary the cpu range of the stat command
CpuConfigs ==
    { Restrict([BaseConfig EXCEPT !.perf_stat_cpu_range = r, !.perf_stat_duration = d],
               required_keys \cup {"perf_stat_cpu_range"})
        : r \in (SeqsUpTo(RangeAlphabet, MaxRangeLen) \cup {AllLiteral}), d \in {0, 10} }

\* configurations that vary what the stat command is built from
StatConfigs ==
    { Restrict([BaseConfig EXCEPT !.perf_stat_duration = d,
                                  !.perf_stat_count_deltas = c,
                                  !.perf_stat_events = e,
                                  !.perf_stat_cpu_range = r,
                                  !.perf_stat_all_threads = t],
               required_keys \cup O)
        : d \in {0, 10}, c \in {0, 500},
          e \in SeqsUpTo(EventNames, MaxEvents),
          r \in {AllLiteral, <<"0", "-", "3">>, <<"1", "-", "1">>, <<"x", "-", "y">>},
          t \in BOOLEAN,
          O \in SUBSET {"perf_stat_count_deltas", "perf_stat_events", "perf_stat_cpu_range",
                        "perf_stat_all_threads", "perf_stat_workload"} }

\* what yaml.safe_load can hand back: nothing (unreadable or unparsable file),
\* a document that is not a mapping (an empty file loads as None), or a mapping
ConfigFiles(Configs) ==
    { [kind |-> "unreadable", content |-> <<>>],
      [kind |-> "not_mapping", content |-> <<>>] }
    \cup { [kind |-> "mapping", content |-> c] : c \in Configs }

(* ------------------------------- state --------------------------------- *)

VARIABLES
    config_file,     \* the YAML file named on the command line
    dir_exists,      \* does <base>/perf_run_<timestamp> exist on disk
    prep,            \* what lines 43-44 did, for this run and for a run of the same second
    config,          \* self.config: <<>> is None, <<c>> is the mapping c
    output_dir,      \* self.output_dir: <<>> is None
    pc,              \* the orchestrator's position in run()
    calls,           \* the PerfTool methods called so far, in order
    ret,             \* what each method returned
    invoked,         \* the subprocess.run calls so far, in order
    files,           \* the files the tool has opened for writing in output_dir
    snapshot,        \* what was dumped to config_used.yaml: <<>> is nothing
    perf_data_file,  \* run()'s local perf_data_file: <<>> is None (or not yet set)
    result,          \* what run() did
    exit_status      \* the status of the process: -1 while it runs

vars == <<config_file, dir_exists, prep, config, output_dir, pc, calls, ret, invoked,
          files, snapshot, perf_data_file, result, exit_status>>

\* this run, and another run of the tool started in the same second with the
\* same base directory (it shares the directory and nothing else)
Runs == {"self", "peer"}

Methods == {"load_config", "validate_config", "run_perf_record",
            "run_perf_annotate", "run_perf_stat"}

InitWith(Configs) ==
    /\ config_file \in ConfigFiles(Configs)
    /\ dir_exists \in BOOLEAN
    /\ prep = [r \in Runs |-> "none"]
    /\ config = <<>>
    /\ output_dir = <<>>
    /\ pc = "Init"
    /\ calls = <<>>
    /\ ret = [m \in Methods |-> "not_called"]
    /\ invoked = <<>>
    /\ files = {}
    /\ snapshot = <<>>
    /\ perf_data_file = <<>>
    /\ result = "running"
    /\ exit_status = -1

Init == InitWith(OrchConfigs)

InitRecord == InitWith(OrchConfigs \cup RecordConfigs)

InitCpu == InitWith(OrchConfigs \cup CpuConfigs)

InitStat == InitWith(OrchConfigs \cup StatConfigs)

\* self.config.get(key, default)
Get(key, default) ==
    IF key \in DOMAIN config[1] THEN config[1][key] ELSE default

\* run() returns False (lines 227, 232)
ReturnFalse ==
    /\ pc' = "Aborted"
    /\ result' = "False"

\* an exception leaves run() and main(): the interpreter prints it and exits
Raise ==
    /\ pc' = "Crashed"
    /\ result' = "raised"

(* ------------------------------ load_config ---------------------------- *)

\* load_config whose except clause does not cover os.makedirs
LoadConfigMakedirsUncaught ==
    /\ pc = "Init"
    /\ calls' = Append(calls, "load_config")
    /\ \/ /\ config_file.kind \in {"unreadable", "not_mapping"}
          /\ ret' = [ret EXCEPT !["load_config"] = "False"]
          /\ ReturnFalse
          /\ UNCHANGED <<config, output_dir, dir_exists, prep>>
       \/ /\ config_file.kind = "mapping"
          /\ config' = <<config_file.content>>
          /\ \E ts \in Timestamps :
                LET base == IF "output_directory" \in DOMAIN config_file.content
                            THEN config_file.content["output_directory"]
                            ELSE <<"tmp", "/", "perf_results">>
                IN  output_dir' = PathJoin(base, <<"perf_run_", ts>>)
          /\ \/ /\ dir_exists
                /\ UNCHANGED dir_exists
                /\ prep' = [prep EXCEPT !["self"] = "reused"]
                /\ ret' = [ret EXCEPT !["load_config"] = "True"]
                /\ pc' = "ConfigLoaded"
                /\ UNCHANGED result
             \/ /\ ~dir_exists
                /\ dir_exists' = TRUE
                /\ prep' = [prep EXCEPT !["self"] = "created"]
                /\ ret' = [ret EXCEPT !["load_config"] = "True"]
                /\ pc' = "ConfigLoaded"
                /\ UNCHANGED result
             \/ /\ ~dir_exists
                /\ UNCHANGED dir_exists
                /\ prep' = [prep EXCEPT !["self"] = "OSError"]
                /\ ret' = [ret EXCEPT !["load_config"] = "raised"]
                /\ Raise
    /\ UNCHANGED <<config_file, invoked, files, snapshot, perf_data_file, exit_status>>

LoadConfig ==
    /\ pc = "Init"
    /\ calls' = Append(calls, "load_config")
    /\ \/ /\ config_file.kind \in {"unreadable", "not_mapping"}
          /\ ret' = [ret EXCEPT !["load_config"] = "False"]
          /\ ReturnFalse
          /\ UNCHANGED <<config, output_dir, dir_exists, prep>>
       \/ /\ config_file.kind = "mapping"
          /\ config' = <<config_file.content>>
          /\ \E ts \in Timestamps :
                LET base == IF "output_directory" \in DOMAIN config_file.content
                            THEN config_file.content["output_directory"]
                            ELSE <<"tmp", "/", "perf_results">>
                IN  output_dir' = PathJoin(base, <<"perf_run_", ts>>)
          /\ \/ /\ dir_exists
                /\ UNCHANGED dir_exists
                /\ prep' = [prep EXCEPT !["self"] = "reused"]
                /\ ret' = [ret EXCEPT !["load_config"] = "True"]
                /\ pc' = "ConfigLoaded"
                /\ UNCHANGED result
             \/ /\ ~dir_exists
                /\ dir_exists' = TRUE
                /\ prep' = [prep EXCEPT !["self"] = "created"]
                /\ ret' = [ret EXCEPT !["load_config"] = "True"]
                /\ pc' = "ConfigLoaded"
                /\ UNCHANGED result
             \/ /\ ~dir_exists
                /\ UNCHANGED dir_exists
                /\ prep' = [prep EXCEPT !["self"] = "OSError"]
                /\ ret' = [ret EXCEPT !["load_config"] = "False"]
                /\ ReturnFalse
    /\ UNCHANGED <<config_file, invoked, files, snapshot, perf_data_file, exit_status>>

(* ---------------- load_config, step by step, beside another run -------- *)

\* lines 33-43: open and parse the file, name the directory, test os.path.exists
LoadConfigOpen ==
    /\ pc = "Init"
    /\ calls' = Append(calls, "load_config")
    /\ \/ /\ config_file.kind \in {"unreadable", "not_mapping"}
          /\ ret' = [ret EXCEPT !["load_config"] = "False"]
          /\ ReturnFalse
          /\ UNCHANGED <<config, output_dir, prep>>
       \/ /\ config_file.kind = "mapping"
          /\ config' = <<config_file.content>>
          /\ \E ts \in Timestamps :
                LET base == IF "output_directory" \in DOMAIN config_file.content
                            THEN config_file.content["output_directory"]
                            ELSE <<"tmp", "/", "perf_results">>
                IN  output_dir' = PathJoin(base, <<"perf_run_", ts>>)
          /\ IF dir_exists
             THEN /\ prep' = [prep EXCEPT !["self"] = "reused"]
                  /\ ret' = [ret EXCEPT !["load_config"] = "True"]
                  /\ pc' = "ConfigLoaded"
                  /\ UNCHANGED result
             ELSE /\ prep' = [prep EXCEPT !["self"] = "saw_absent"]
                  /\ pc' = "Makedirs"
                  /\ UNCHANGED <<ret, result>>
    /\ UNCHANGED <<config_file, dir_exists, invoked, files, snapshot, perf_data_file,
                   exit_status>>

\* lines 44-50: os.makedirs raises FileExistsError when the directory has
\* appeared since the test, and OSError when it cannot be created
LoadConfigMakedirs ==
    /\ pc = "Makedirs"
    /\ IF dir_exists
       THEN /\ prep' = [prep EXCEPT !["self"] = "FileExistsError"]
            /\ ret' = [ret EXCEPT !["load_config"] = "False"]
            /\ ReturnFalse
            /\ UNCHANGED dir_exists
       ELSE \/ /\ dir_exists' = TRUE
               /\ prep' = [prep EXCEPT !["self"] = "created"]
               /\ ret' = [ret EXCEPT !["load_config"] = "True"]
               /\ pc' = "ConfigLoaded"
               /\ UNCHANGED result
            \/ /\ UNCHANGED dir_exists
               /\ prep' = [prep EXCEPT !["self"] = "OSError"]
               /\ ret' = [ret EXCEPT !["load_config"] = "False"]
               /\ ReturnFalse
    /\ UNCHANGED <<config_file, config, output_dir, calls, invoked, files, snapshot,
                   perf_data_file, exit_status>>

\* line 43 in the other run
PeerExists ==
    /\ prep["peer"] = "none"
    /\ prep' = [prep EXCEPT !["peer"] = IF dir_exists THEN "reused" ELSE "saw_absent"]
    /\ UNCHANGED <<config_file, dir_exists, config, output_dir, pc, calls, ret, invoked,
                   files, snapshot, perf_data_file, result, exit_status>>

\* lines 44-50 in the other run
PeerMakedirs ==
    /\ prep["peer"] = "saw_absent"
    /\ IF dir_exists
       THEN /\ prep' = [prep EXCEPT !["peer"] = "FileExistsError"]
            /\ UNCHANGED dir_exists
       ELSE \/ /\ dir_exists' = TRUE
               /\ prep' = [prep EXCEPT !["peer"] = "created"]
            \/ /\ UNCHANGED dir_exists
               /\ prep' = [prep EXCEPT !["peer"] = "OSError"]
    /\ UNCHANGED <<config_file, config, output_dir, pc, calls, ret, invoked,
                   files, snapshot, perf_data_file, result, exit_status>>

(* ---------------------------- validate_config -------------------------- *)

\* a loop that returns True after looking at its first key only
ValidateFirstKeyOnly(cfg) == "perf_record_frequency" \in DOMAIN cfg

\* the loop of lines 59-64: False at the first required key that is absent
ValidateConfigResult(cfg) == \A key \in required_keys : key \in DOMAIN cfg

ValidateConfig ==
    /\ pc = "ConfigLoaded"
    /\ calls' = Append(calls, "validate_config")
    /\ IF ValidateConfigResult(config[1])
       THEN /\ ret' = [ret EXCEPT !["validate_config"] = "True"]
            /\ pc' = "ConfigValidated"
            /\ UNCHANGED result
       ELSE /\ ret' = [ret EXCEPT !["validate_config"] = "False"]
            /\ ReturnFalse
    /\ UNCHANGED <<config_file, dir_exists, prep, config, output_dir, invoked, files,
                   snapshot, perf_data_file, exit_status>>

(* ---------------------------- run_perf_record -------------------------- *)

\* how a subprocess.run(cmd, check=True) call can end
ProcStatus == {"exit0", "nonzero", "spawn_failure"}

\* the plain comma join that line 83 keeps in a comment
RecordEventStrPlain(events) == Join(events, ",")

\* line 85
RecordEventStr(events) == <<"{">> \o Join(events, ",") \o <<"}", ":", "S">>

\* lines 70-111
RecordCmd ==
    LET frequency       == Get("perf_record_frequency", 99)
        duration        == Get("perf_record_duration", 30)
        events          == Get("perf_record_events", <<<<"cycles">>>>)
        record_workload == Get("perf_record_workload", WorkloadDefault)
        output_file     == PathJoin(output_dir, <<"perf.data">>)
    IN  <<<<"perf">>, <<"record">>, <<"-F">>, ToStr(frequency)>>
        \o <<<<"-a">>>>
        \o (IF events # <<>> THEN <<<<"-e">>, RecordEventStr(events)>> ELSE <<>>)
        \o <<<<"-g">>>>
        \o <<<<"-a">>>>
        \o <<<<"-o">>, output_file>>
        \o (IF duration # 0 THEN <<<<"sleep">>, ToStr(duration)>> ELSE <<record_workload>>)

\* a run that goes on whatever run_perf_record returned
RecordNeverAborts(data_file) == FALSE

\* line 231: if not perf_data_file
RecordAborts(data_file) == data_file = <<>>

\* run_perf_record that saves the captured output of a failed record too
RunPerfRecordLogsFailure ==
    /\ pc = "ConfigValidated"
    /\ calls' = Append(calls, "run_perf_record")
    /\ \E status \in ProcStatus :
          /\ invoked' = Append(invoked, [stage |-> "record", cmd |-> RecordCmd, status |-> status])
          /\ \/ /\ status = "exit0"
                /\ \E log_written \in BOOLEAN :
                      IF log_written
                      THEN /\ files' = files \cup {"perf_record_output.log"}
                           /\ ret' = [ret EXCEPT !["run_perf_record"] = "output_file"]
                           /\ perf_data_file' = PathJoin(output_dir, <<"perf.data">>)
                           /\ IF RecordAborts(perf_data_file')
                              THEN ReturnFalse
                              ELSE pc' = "Recorded" /\ UNCHANGED result
                      ELSE /\ ret' = [ret EXCEPT !["run_perf_record"] = "raised"]
                           /\ Raise
                           /\ UNCHANGED <<files, perf_data_file>>
             \/ /\ status = "nonzero"
                /\ ret' = [ret EXCEPT !["run_perf_record"] = "None"]
                /\ perf_data_file' = <<>>
                /\ IF RecordAborts(perf_data_file')
                   THEN ReturnFalse
                   ELSE pc' = "Recorded" /\ UNCHANGED result
                /\ files' = files \cup {"perf_record_output.log"}
             \/ /\ status = "spawn_failure"
                /\ ret' = [ret EXCEPT !["run_perf_record"] = "raised"]
                /\ Raise
                /\ UNCHANGED <<files, perf_data_file>>
    /\ UNCHANGED <<config_file, dir_exists, prep, config, output_dir, snapshot, exit_status>>

RunPerfRecord ==
    /\ pc = "ConfigValidated"
    /\ calls' = Append(calls, "run_perf_record")
    /\ \E status \in ProcStatus :
          /\ invoked' = Append(invoked, [stage |-> "record", cmd |-> RecordCmd, status |-> status])
          /\ \/ /\ status = "exit0"
                /\ \E log_written \in BOOLEAN :
                      IF log_written
                      THEN /\ files' = files \cup {"perf_record_output.log"}
                           /\ ret' = [ret EXCEPT !["run_perf_record"] = "output_file"]
                           /\ perf_data_file' = PathJoin(output_dir, <<"perf.data">>)
                           /\ IF RecordAborts(perf_data_file')
                              THEN ReturnFalse
                              ELSE pc' = "Recorded" /\ UNCHANGED result
                      ELSE /\ ret' = [ret EXCEPT !["run_perf_record"] = "raised"]
                           /\ Raise
                           /\ UNCHANGED <<files, perf_data_file>>
             \/ /\ status = "nonzero"
                /\ ret' = [ret EXCEPT !["run_perf_record"] = "None"]
                /\ perf_data_file' = <<>>
                /\ IF RecordAborts(perf_data_file')
                   THEN ReturnFalse
                   ELSE pc' = "Recorded" /\ UNCHANGED result
                /\ UNCHANGED files
             \/ /\ status = "spawn_failure"
                /\ ret' = [ret EXCEPT !["run_perf_record"] = "raised"]
                /\ Raise
                /\ UNCHANGED <<files, perf_data_file>>
    /\ UNCHANGED <<config_file, dir_exists, prep, config, output_dir, snapshot, exit_status>>

(* --------------------------- run_perf_annotate ------------------------- *)

\* annotation that is on unless the configuration turns it off
AnnotationEnabledByDefault == Get("use_perf_annotation", TRUE)

\* line 131: self.config.get('use_perf_annotation', False)
AnnotationEnabled == Get("use_perf_annotation", FALSE)

\* annotate reading perf's default input file and not the file of this run
AnnotateCmdDefaultInput(data_file) == <<<<"perf">>, <<"annotate">>, <<"-i">>, <<"perf.data">>>>

\* line 138
AnnotateCmd(data_file) == <<<<"perf">>, <<"annotate">>, <<"-i">>, data_file>>

RunPerfAnnotate ==
    /\ pc = "Recorded"
    /\ IF perf_data_file = <<>>
       THEN \* line 235: the call is skipped when perf_data_file is falsy
            /\ pc' = "Annotated"
            /\ UNCHANGED <<calls, ret, invoked, files, result>>
       ELSE /\ calls' = Append(calls, "run_perf_annotate")
            /\ IF ~AnnotationEnabled
               THEN /\ ret' = [ret EXCEPT !["run_perf_annotate"] = "True"]
                    /\ pc' = "Annotated"
                    /\ UNCHANGED <<invoked, files, result>>
               ELSE \E opened \in BOOLEAN, status \in ProcStatus :
                      IF ~opened
                      THEN /\ ret' = [ret EXCEPT !["run_perf_annotate"] = "raised"]
                           /\ Raise
                           /\ UNCHANGED <<invoked, files>>
                      ELSE /\ files' = files \cup {"perf_annotate.txt"}
                           /\ invoked' = Append(invoked, [stage |-> "annotate",
                                                          cmd |-> AnnotateCmd(perf_data_file),
                                                          status |-> status])
                           /\ \/ /\ status = "exit0"
                                 /\ ret' = [ret EXCEPT !["run_perf_annotate"] = "True"]
                                 /\ pc' = "Annotated"
                                 /\ UNCHANGED result
                              \/ /\ status = "nonzero"
                                 /\ ret' = [ret EXCEPT !["run_perf_annotate"] = "False"]
                                 /\ pc' = "Annotated"
                                 /\ UNCHANGED result
                              \/ /\ status = "spawn_failure"
                                 /\ ret' = [ret EXCEPT !["run_perf_annotate"] = "raised"]
                                 /\ Raise
    /\ UNCHANGED <<config_file, dir_exists, prep, config, output_dir, snapshot,
                   perf_data_file, exit_status>>

(* ----------------------------- run_perf_stat --------------------------- *)

StatEventsDefault == <<<<"cycles">>, <<"instructions">>, <<"branch-misses">>,
                       <<"L1-dcache-load-misses">>, <<"L1-icache-load-misses">>>>

\* lines 185-186 raise nothing: split gives two parts and int() takes both
CpuRangeParses(cpu_range) ==
    LET parts == Split(cpu_range, "-")
    IN  Len(parts) = 2 /\ IsInt(parts[1]) /\ IsInt(parts[2])

\* range(start, end): the end of the range left out
CpuListExclusive(start, end) ==
    LET cpus == Range(start, end)
    IN  Join([i \in 1..Len(cpus) |-> ToStr(cpus[i])], ",")

\* line 187: ','.join(str(cpu) for cpu in range(start, end + 1))
CpuList(start, end) ==
    LET cpus == Range(start, end + 1)
    IN  Join([i \in 1..Len(cpus) |-> ToStr(cpus[i])], ",")

\* lines 182-188, when nothing is raised
CpuArgs(cpu_range) ==
    IF cpu_range # AllLiteral
    THEN LET parts == Split(cpu_range, "-")
         IN  <<<<"-C">>, CpuList(ParseInt(parts[1]), ParseInt(parts[2]))>>
    ELSE <<>>

\* lines 182-191: the except branch is taken
StatRejects(cpu_range) == cpu_range # AllLiteral /\ ~CpuRangeParses(cpu_range)

\* the stat command with its events wrapped as the record command wraps them
StatCmdGroupedEvents ==
    LET duration      == Get("perf_stat_duration", 10)
        count_deltas  == Get("perf_stat_count_deltas", 1000)
        events        == Get("perf_stat_events", StatEventsDefault)
        cpu_range     == Get("perf_stat_cpu_range", AllLiteral)
        all_threads   == Get("perf_stat_all_threads", TRUE)
        stat_workload == Get("perf_stat_workload", WorkloadDefault)
    IN  <<<<"perf">>, <<"stat">>>>
        \o <<<<"-a">>>>
        \o (IF count_deltas # 0 THEN <<<<"-I">>, ToStr(count_deltas)>> ELSE <<>>)
        \o (IF events # <<>> THEN <<<<"-e">>, RecordEventStr(events)>> ELSE <<>>)
        \o CpuArgs(cpu_range)
        \o (IF all_threads THEN <<<<"-A">>>> ELSE <<>>)
        \o (IF duration # 0 THEN <<<<"sleep">>, ToStr(duration)>> ELSE <<stat_workload>>)

\* lines 156-211
StatCmd ==
    LET duration      == Get("perf_stat_duration", 10)
        count_deltas  == Get("perf_stat_count_deltas", 1000)
        events        == Get("perf_stat_events", StatEventsDefault)
        cpu_range     == Get("perf_stat_cpu_range", AllLiteral)
        all_threads   == Get("perf_stat_all_threads", TRUE)
        stat_workload == Get("perf_stat_workload", WorkloadDefault)
    IN  <<<<"perf">>, <<"stat">>>>
        \o <<<<"-a">>>>
        \o (IF count_deltas # 0 THEN <<<<"-I">>, ToStr(count_deltas)>> ELSE <<>>)
        \o (IF events # <<>> THEN <<<<"-e">>, Join(events, ",")>> ELSE <<>>)
        \o CpuArgs(cpu_range)
        \o (IF all_threads THEN <<<<"-A">>>> ELSE <<>>)
        \o (IF duration # 0 THEN <<<<"sleep">>, ToStr(duration)>> ELSE <<stat_workload>>)

\* run_perf_stat called again after a first non-zero exit
RunPerfStatRetried ==
    /\ pc = "Annotated"
    /\ calls' = Append(calls, "run_perf_stat")
    /\ IF StatRejects(Get("perf_stat_cpu_range", AllLiteral))
       THEN /\ ret' = [ret EXCEPT !["run_perf_stat"] = "False"]
            /\ pc' = "Stated"
            /\ UNCHANGED <<invoked, files, result>>
       ELSE \E opened \in BOOLEAN, status \in ProcStatus :
              IF ~opened
              THEN /\ ret' = [ret EXCEPT !["run_perf_stat"] = "raised"]
                   /\ Raise
                   /\ UNCHANGED <<invoked, files>>
              ELSE /\ files' = files \cup {"perf_stat.txt"}
                   /\ invoked' = Append(invoked, [stage |-> "stat", cmd |-> StatCmd,
                                                  status |-> status])
                   /\ \/ /\ status = "exit0"
                         /\ ret' = [ret EXCEPT !["run_perf_stat"] = "True"]
                         /\ pc' = "Stated"
                         /\ UNCHANGED result
                      \/ /\ status = "nonzero"
                         /\ ret' = [ret EXCEPT !["run_perf_stat"] = "False"]
                         /\ pc' = IF ret["run_perf_stat"] = "not_called"
                                  THEN "Annotated" ELSE "Stated"
                         /\ UNCHANGED result
                      \/ /\ status = "spawn_failure"
                         /\ ret' = [ret EXCEPT !["run_perf_stat"] = "raised"]
                         /\ Raise
    /\ UNCHANGED <<config_file, dir_exists, prep, config, output_dir, snapshot,
                   perf_data_file, exit_status>>

RunPerfStat ==
    /\ pc = "Annotated"
    /\ calls' = Append(calls, "run_perf_stat")
    /\ IF StatRejects(Get("perf_stat_cpu_range", AllLiteral))
       THEN /\ ret' = [ret EXCEPT !["run_perf_stat"] = "False"]
            /\ pc' = "Stated"
            /\ UNCHANGED <<invoked, files, result>>
       ELSE \E opened \in BOOLEAN, status \in ProcStatus :
              IF ~opened
              THEN /\ ret' = [ret EXCEPT !["run_perf_stat"] = "raised"]
                   /\ Raise
                   /\ UNCHANGED <<invoked, files>>
              ELSE /\ files' = files \cup {"perf_stat.txt"}
                   /\ invoked' = Append(invoked, [stage |-> "stat", cmd |-> StatCmd,
                                                  status |-> status])
                   /\ \/ /\ status = "exit0"
                         /\ ret' = [ret EXCEPT !["run_perf_stat"] = "True"]
                         /\ pc' = "Stated"
                         /\ UNCHANGED result
                      \/ /\ status = "nonzero"
                         /\ ret' = [ret EXCEPT !["run_perf_stat"] = "False"]
                         /\ pc' = "Stated"
                         /\ UNCHANGED result
                      \/ /\ status = "spawn_failure"
                         /\ ret' = [ret EXCEPT !["run_perf_stat"] = "raised"]
                         /\ Raise
    /\ UNCHANGED <<config_file, dir_exists, prep, config, output_dir, snapshot,
                   perf_data_file, exit_status>>

(* ------------------------- run(): config snapshot ---------------------- *)

\* a snapshot that is written only when the stat stage succeeded
SaveConfigAfterGoodStat ==
    /\ pc = "Stated"
    /\ IF ret["run_perf_stat"] = "True"
       THEN \E written \in BOOLEAN :
              IF written
              THEN /\ files' = files \cup {"config_used.yaml"}
                   /\ snapshot' = <<config[1]>>
                   /\ pc' = "Done"
                   /\ result' = "True"
              ELSE /\ Raise
                   /\ UNCHANGED <<files, snapshot>>
       ELSE /\ pc' = "Done"
            /\ result' = "True"
            /\ UNCHANGED <<files, snapshot>>
    /\ UNCHANGED <<config_file, dir_exists, prep, config, output_dir, calls, ret, invoked,
                   perf_data_file, exit_status>>

\* lines 242-247: yaml.dump(self.config) into config_used.yaml, then return True
SaveConfig ==
    /\ pc = "Stated"
    /\ \E written \in BOOLEAN :
          IF written
          THEN /\ files' = files \cup {"config_used.yaml"}
               /\ snapshot' = <<config[1]>>
               /\ pc' = "Done"
               /\ result' = "True"
          ELSE /\ Raise
               /\ UNCHANGED <<files, snapshot>>
    /\ UNCHANGED <<config_file, dir_exists, prep, config, output_dir, calls, ret, invoked,
                   perf_data_file, exit_status>>

(* --------------------------------- main -------------------------------- *)

\* lines 255-258; an exception that leaves main() ends the interpreter with status 1
Exit ==
    /\ pc \in {"Done", "Aborted", "Crashed"}
    /\ exit_status = -1
    /\ exit_status' = IF result = "True" THEN 0 ELSE 1
    /\ UNCHANGED <<config_file, dir_exists, prep, config, output_dir, pc, calls, ret, invoked,
                   files, snapshot, perf_data_file, result>>

Next ==
    \/ LoadConfig
    \/ ValidateConfig
    \/ RunPerfRecord
    \/ RunPerfAnnotate
    \/ RunPerfStat
    \/ SaveConfig
    \/ Exit

Spec == Init /\ [][Next]_vars

SpecRecord == InitRecord /\ [][Next]_vars

SpecCpu == InitCpu /\ [][Next]_vars

SpecStat == InitStat /\ [][Next]_vars

\* two runs of the same second: load_config is taken line by line
NextRace ==
    \/ LoadConfigOpen
    \/ LoadConfigMakedirs
    \/ PeerExists
    \/ PeerMakedirs
    \/ ValidateConfig
    \/ RunPerfRecord
    \/ RunPerfAnnotate
    \/ RunPerfStat
    \/ SaveConfig
    \/ Exit

SpecRace == Init /\ [][NextRace]_vars

(* ============================ properties =============================== *)

Finished == pc \in {"Done", "Aborted", "Crashed"}

StageInvoked(stage) == \E i \in 1..Len(invoked) : invoked[i].stage = stage

StageEnded(stage, status) ==
    \E i \in 1..Len(invoked) : invoked[i].stage = stage /\ invoked[i].status = status

CmdOf(stage) == invoked[CHOOSE i \in 1..Len(invoked) : invoked[i].stage = stage].cmd

Called(method) == \E i \in 1..Len(calls) : calls[i] = method

HasToken(cmd, tok) == \E i \in 1..Len(cmd) : cmd[i] = tok

\* the mapping in the configuration file, and an option of it after defaulting
FileConfig == config_file.content

Option(key, default) == IF key \in DOMAIN FileConfig THEN FileConfig[key] ELSE default

\* a decimal numeral without sign or leading zeros
IsNumeral(s) == IsInt(s) /\ (Len(s) > 1 => s[1] # "0")

LacksRequiredKey ==
    /\ config_file.kind = "mapping"
    /\ \E key \in {"perf_record_frequency", "perf_record_duration", "perf_stat_duration"} :
          key \notin DOMAIN FileConfig

\* C1: a configuration that lacks perf_record_frequency, perf_record_duration or
\* perf_stat_duration is never validated, run() returns False for it, and no
\* record, annotate or stat process is launched in that run.
C1_MissingKeyRejected ==
    LacksRequiredKey =>
        /\ invoked = <<>>
        /\ ret["validate_config"] # "True"
        /\ (Called("validate_config") => ret["validate_config"] = "False")
        /\ (Finished => result = "False")

C1_Witness ==
    /\ LacksRequiredKey
    /\ "perf_record_frequency" \in DOMAIN FileConfig
    /\ ret["validate_config"] = "False"
    /\ result = "False"
    /\ exit_status = 1

\* C2: once the record process has exited with a non-zero status the run is
\* Aborted, run() has returned False, the exit status is never 0, and neither
\* annotate nor stat is called or launched, whatever use_perf_annotation says.
C2_RecordFailureAborts ==
    StageEnded("record", "nonzero") =>
        /\ pc = "Aborted"
        /\ result = "False"
        /\ exit_status \in {-1, 1}
        /\ ~StageInvoked("annotate") /\ ~StageInvoked("stat")
        /\ ~Called("run_perf_annotate") /\ ~Called("run_perf_stat")

C2_Witness ==
    /\ StageEnded("record", "nonzero")
    /\ Option("use_perf_annotation", FALSE) = TRUE
    /\ exit_status = 1

\* C3: when record succeeded and the stat process exited non-zero, a finished
\* run is Done: run() returned True and the exit status is 0.
C3_StatFailureStillDone ==
    (ret["run_perf_record"] = "output_file" /\ StageEnded("stat", "nonzero") /\ Finished) =>
        /\ pc = "Done"
        /\ result = "True"
        /\ exit_status \in {-1, 0}

\* C4: a spawn failure is handled as a non-zero exit of the same stage: record
\* returns None and the run is Aborted with run() returning False; annotate
\* and stat return False and the run goes on to Done.
C4_SpawnFailureLikeNonZero ==
    \A i \in 1..Len(invoked) :
        invoked[i].status = "spawn_failure" =>
            IF invoked[i].stage = "record"
            THEN ret["run_perf_record"] = "None" /\ pc = "Aborted" /\ result = "False"
            ELSE /\ invoked[i].stage = "annotate" => ret["run_perf_annotate"] = "False"
                 /\ invoked[i].stage = "stat" => ret["run_perf_stat"] = "False"
                 /\ pc # "Crashed"
                 /\ (Finished => pc = "Done" /\ result = "True")

\* the stat stage returned and the write of config_used.yaml then failed
SnapshotWriteFailed ==
    /\ ret["run_perf_stat"] \in {"True", "False"}
    /\ pc \notin {"Stated"}
    /\ "config_used.yaml" \notin files

\* C5: a failed write of config_used.yaml after record succeeded and stat ran
\* is not fatal: the run is Done, run() returned True and the exit status is 0.
C5_SnapshotFailureNonFatal ==
    SnapshotWriteFailed =>
        /\ pc = "Done"
        /\ result = "True"
        /\ exit_status \in {-1, 0}

\* a cpu range "<start>-<end>" of two numerals with start <= end
DashAt(r, p) ==
    /\ r[p] = "-"
    /\ IsInt(SubSeq(r, 1, p - 1))
    /\ IsInt(SubSeq(r, p + 1, Len(r)))

RangeStart(r) == ParseInt(SubSeq(r, 1, (CHOOSE p \in 1..Len(r) : DashAt(r, p)) - 1))

RangeEnd(r) == ParseInt(SubSeq(r, (CHOOSE p \in 1..Len(r) : DashAt(r, p)) + 1, Len(r)))

WellFormedRange(r) ==
    /\ \E p \in 1..Len(r) : DashAt(r, p)
    /\ RangeStart(r) <= RangeEnd(r)

MalformedRange(r) == r # <<"a", "l", "l">> /\ ~WellFormedRange(r)

\* C6: a malformed perf_stat_cpu_range (non-integer bounds, start > end, no
\* dash) makes run_perf_stat return False without launching a process, and
\* the run still ends Done.
C6_MalformedRangeRejected ==
    (config_file.kind = "mapping"
       /\ MalformedRange(Option("perf_stat_cpu_range", <<"a", "l", "l">>))
       /\ Called("run_perf_stat")) =>
        /\ ret["run_perf_stat"] = "False"
        /\ ~StageInvoked("stat")
        /\ (Finished => pc = "Done" /\ result = "True")

\* the token is the numerals of first..last in increasing order, comma-joined
IsCpuList(tok, first, last) ==
    LET parts == Split(tok, ",")
    IN  /\ Len(parts) = last - first + 1
        /\ \A k \in 1..Len(parts) : IsNumeral(parts[k]) /\ ParseInt(parts[k]) = first + k - 1

\* C7: for a cpu range "<start>-<end>" with start <= end the stat stage does
\* not reject the range and its command has -C immediately followed by the
\* token "start,start+1,...,end"; for "all" the command has no -C.
C7_CpuRangeExpanded ==
    (config_file.kind = "mapping" /\ Called("run_perf_stat")) =>
        LET r == Option("perf_stat_cpu_range", <<"a", "l", "l">>)
        IN  /\ WellFormedRange(r) =>
               /\ ret["run_perf_stat"] = "False" => StageEnded("stat", "nonzero")
               /\ StageInvoked("stat") =>
                    LET cmd == CmdOf("stat")
                    IN  \E i \in 1..(Len(cmd) - 1) :
                           /\ cmd[i] = <<"-C">>
                           /\ IsCpuList(cmd[i + 1], RangeStart(r), RangeEnd(r))
            /\ (r = <<"a", "l", "l">> /\ StageInvoked("stat")) =>
                    ~HasToken(CmdOf("stat"), <<"-C">>)

C7_Witness ==
    /\ config_file.kind = "mapping"
    /\ StageInvoked("stat")
    /\ WellFormedRange(Option("perf_stat_cpu_range", <<"a", "l", "l">>))
    /\ RangeStart(Option("perf_stat_cpu_range", <<"a", "l", "l">>)) = 1
    /\ RangeEnd(Option("perf_stat_cpu_range", <<"a", "l", "l">>)) >= 10

\* the token is {e1,e2,...}:S for the events e1, e2, ...
IsEventGroup(tok, events) ==
    /\ Len(tok) >= 4
    /\ tok[1] = "{"
    /\ SubSeq(tok, Len(tok) - 2, Len(tok)) = <<"}", ":", "S">>
    /\ Split(SubSeq(tok, 2, Len(tok) - 3), ",") = events

\* C8: the record command has -F <frequency>, -g and -o <output_dir>/perf.data;
\* it has -e exactly when the events list is non-empty, followed by the one
\* token {e1,e2,...}:S; it ends in sleep <duration> exactly when the duration
\* is truthy and otherwise in the workload string as one token.
C8_RecordCommand ==
    StageInvoked("record") =>
        LET cmd      == CmdOf("record")
            n        == Len(cmd)
            events   == Option("perf_record_events", <<<<"cycles">>>>)
            workload == Option("perf_record_workload", <<"bench", " ", "futex", " ", "hash">>)
            duration == FileConfig["perf_record_duration"]
        IN  /\ \E i \in 1..(n - 1) :
                  /\ cmd[i] = <<"-F">>
                  /\ IsNumeral(cmd[i + 1])
                  /\ ParseInt(cmd[i + 1]) = FileConfig["perf_record_frequency"]
            /\ HasToken(cmd, <<"-g">>)
            /\ \E i \in 1..(n - 1) :
                  /\ cmd[i] = <<"-o">>
                  /\ cmd[i + 1] = output_dir \o <<"/", "perf.data">>
            /\ HasToken(cmd, <<"-e">>) <=> (events # <<>>)
            /\ \A i \in 1..n :
                  cmd[i] = <<"-e">> => i < n /\ IsEventGroup(cmd[i + 1], events)
            /\ IF duration # 0
               THEN /\ cmd[n - 1] = <<"sleep">>
                    /\ IsNumeral(cmd[n])
                    /\ ParseInt(cmd[n]) = duration
               ELSE /\ cmd[n] = workload
                    /\ cmd[n - 1] # <<"sleep">>

C8_Witness ==
    /\ StageInvoked("record")
    /\ Len(Option("perf_record_events", <<>>)) = 2
    /\ FileConfig["perf_record_duration"] = 0
    /\ "perf_record_workload" \notin DOMAIN FileConfig
    /\ FileConfig["perf_record_frequency"] = 7

AnnotationOff ==
    /\ config_file.kind = "mapping"
    /\ Option("use_perf_annotation", FALSE) = FALSE

\* C9: with use_perf_annotation false or absent, run_perf_annotate returns
\* True, no annotate process is launched and perf_annotate.txt is not created.
C9_AnnotateSkipped ==
    AnnotationOff =>
        /\ ~StageInvoked("annotate")
        /\ "perf_annotate.txt" \notin files
        /\ (Called("run_perf_annotate") => ret["run_perf_annotate"] = "True")

C9_Witness ==
    /\ AnnotationOff
    /\ "use_perf_annotation" \notin DOMAIN FileConfig
    /\ ret["run_perf_annotate"] = "True"
    /\ pc = "Done"

\* C10: when the annotate process exits non-zero after a successful record,
\* run_perf_stat is still called and a finished run is Done with run()
\* returning True.
C10_AnnotateFailureNonFatal ==
    (ret["run_perf_record"] = "output_file" /\ StageEnded("annotate", "nonzero")) =>
        /\ pc # "Aborted"
        /\ (pc # "Annotated" => Called("run_perf_stat"))
        /\ (Finished => pc = "Done" /\ result = "True")

C12_LoadFailureAborts ==
    /\ (Called("load_config")
          /\ (config_file.kind # "mapping" \/ prep["self"] \in {"OSError", "FileExistsError"}))
       => ret["load_config"] = "False"
    /\ ret["load_config"] = "False" =>
          /\ pc = "Aborted"
          /\ result = "False"
          /\ exit_status \in {-1, 1}
          /\ invoked = <<>>
          /\ calls = <<"load_config">>

C12_Witness ==
    /\ prep["self"] = "OSError"
    /\ ret["load_config"] = "False"
    /\ exit_status = 1

StageRank(stage) ==
    CASE stage = "record" -> 1 [] stage = "annotate" -> 2 [] stage = "stat" -> 3

MethodRank(method) ==
    CASE method = "load_config" -> 1
      [] method = "validate_config" -> 2
      [] method = "run_perf_record" -> 3
      [] method = "run_perf_annotate" -> 4
      [] method = "run_perf_stat" -> 5

\* C13: each of record, annotate and stat is launched at most once, in this
\* order, and a stage is launched only after the process of every earlier
\* stage has exited; no stage method is called twice.
C13_StagesSequentialOnce ==
    /\ \A i, j \in 1..Len(invoked) :
          i < j => /\ StageRank(invoked[i].stage) < StageRank(invoked[j].stage)
                   /\ invoked[i].status \in {"exit0", "nonzero"}
    /\ \A i, j \in 1..Len(calls) :
          i < j => MethodRank(calls[i]) < MethodRank(calls[j])

C13_Witness ==
    /\ Len(invoked) = 3
    /\ invoked[2].status = "nonzero"
    /\ invoked[3].status = "nonzero"
    /\ pc = "Done"

\* C14: a run whose configuration lacks a required key never creates the
\* perf_run_<timestamp> directory.
C14_NoDirectoryBeforeValidation ==
    LacksRequiredKey => prep["self"] # "created"

\* C15: when two runs of the same second prepare the same directory, neither
\* fails because the other created it, however their os.path.exists and
\* os.makedirs steps interleave.
C15_PrepareIdempotent ==
    \A r \in {"self", "peer"} : prep[r] # "FileExistsError"

\* the defaults the option table documents for the optional keys
DocumentedDefaults ==
    [ output_directory       |-> <<"tmp", "/", "perf_results">>,
      perf_record_events     |-> <<<<"cycles">>>>,
      perf_record_workload   |-> <<"bench", " ", "futex", " ", "hash">>,
      use_perf_annotation    |-> FALSE,
      perf_stat_count_deltas |-> 1000,
      perf_stat_events       |-> <<<<"cycles">>, <<"instructions">>, <<"branch-misses">>,
                                   <<"L1-dcache-load-misses">>, <<"L1-icache-load-misses">>>>,
      perf_stat_cpu_range    |-> <<"a", "l", "l">>,
      perf_stat_all_threads  |-> TRUE,
      perf_stat_workload     |-> <<"bench", " ", "futex", " ", "hash">> ]

\* C16: the snapshot holds the configuration after defaulting: every key of
\* the input with its input value, and every optional key that the input
\* lacks with its documented default.
C16_SnapshotHasDefaults ==
    snapshot # <<>> =>
        /\ \A key \in DOMAIN FileConfig :
              key \in DOMAIN snapshot[1] /\ snapshot[1][key] = FileConfig[key]
        /\ \A key \in DOMAIN DocumentedDefaults :
              key \notin DOMAIN FileConfig =>
                 (key \in DOMAIN snapshot[1] /\ snapshot[1][key] = DocumentedDefaults[key])

\* C17: for a cpu range that is "all" or well-formed the stat command is
\* exactly perf stat -a, then -I <count_deltas> iff count_deltas is truthy,
\* then -e <events joined by commas> iff the list is non-empty, then -C <list>
\* iff the range is not "all", then -A iff all_threads is truthy, then
\* sleep <duration> iff the duration is truthy and else the workload string.
C17_StatCommand ==
    (StageInvoked("stat")
       /\ LET r == Option("perf_stat_cpu_range", <<"a", "l", "l">>)
          IN  r = <<"a", "l", "l">> \/ WellFormedRange(r)) =>
        LET cmd      == CmdOf("stat")
            r        == Option("perf_stat_cpu_range", <<"a", "l", "l">>)
            deltas   == Option("perf_stat_count_deltas", 1000)
            events   == Option("perf_stat_events", DocumentedDefaults["perf_stat_events"])
            threads  == Option("perf_stat_all_threads", TRUE)
            workload == Option("perf_stat_workload", <<"bench", " ", "futex", " ", "hash">>)
            duration == FileConfig["perf_stat_duration"]
            a        == 3
            b        == a + (IF deltas # 0 THEN 2 ELSE 0)
            c        == b + (IF events # <<>> THEN 2 ELSE 0)
            d        == c + (IF r # <<"a", "l", "l">> THEN 2 ELSE 0)
            e        == d + (IF threads THEN 1 ELSE 0)
            n        == e + (IF duration # 0 THEN 2 ELSE 1)
        IN  /\ Len(cmd) = n
            /\ SubSeq(cmd, 1, 3) = <<<<"perf">>, <<"stat">>, <<"-a">>>>
            /\ deltas # 0 =>
                  (cmd[a + 1] = <<"-I">> /\ IsNumeral(cmd[a + 2]) /\ ParseInt(cmd[a + 2]) = deltas)
            /\ events # <<>> =>
                  (cmd[b + 1] = <<"-e">> /\ Split(cmd[b + 2], ",") = events)
            /\ r # <<"a", "l", "l">> =>
                  (cmd[c + 1] = <<"-C">> /\ IsCpuList(cmd[c + 2], RangeStart(r), RangeEnd(r)))
            /\ threads => cmd[d + 1] = <<"-A">>
            /\ IF duration # 0
               THEN /\ cmd[e + 1] = <<"sleep">>
                    /\ IsNumeral(cmd[e + 2])
                    /\ ParseInt(cmd[e + 2]) = duration
               ELSE cmd[e + 1] = workload

C17_Witness ==
    /\ StageInvoked("stat")
    /\ "perf_stat_count_deltas" \notin DOMAIN FileConfig
    /\ "perf_stat_all_threads" \notin DOMAIN FileConfig
    /\ Len(Option("perf_stat_events", <<>>)) = 2
    /\ Option("perf_stat_cpu_range", <<>>) = <<"0", "-", "3">>
    /\ FileConfig["perf_stat_duration"] = 0

\* C18: whenever the annotate process is launched, the record process of the
\* run has exited with 0 and run_perf_record has returned its output file, and
\* the token after -i is the <output_dir>/perf.data that record got after -o.
C18_AnnotateReadsRecordOutput ==
    StageInvoked("annotate") =>
        /\ StageEnded("record", "exit0")
        /\ ret["run_perf_record"] = "output_file"
        /\ LET ann == CmdOf("annotate")
               rec == CmdOf("record")
           IN  /\ Len(ann) = 4
               /\ ann[3] = <<"-i">>
               /\ ann[4] = output_dir \o <<"/", "perf.data">>
               /\ \E i \in 1..(Len(rec) - 1) : rec[i] = <<"-o">> /\ rec[i + 1] = ann[4]

C18_Witness ==
    /\ StageEnded("annotate", "exit0")
    /\ pc = "Done"

\* C19: perf_record_output.log is written only when the record process exited
\* with 0, and a run aborted by a record failure has written none of
\* perf_record_output.log, perf_annotate.txt, perf_stat.txt, config_used.yaml.
C19_NoFilesAfterRecordFailure ==
    /\ "perf_record_output.log" \in files => StageEnded("record", "exit0")
    /\ StageEnded("record", "nonzero") =>
          files \cap {"perf_record_output.log", "perf_annotate.txt", "perf_stat.txt",
                      "config_used.yaml"} = {}

C19_Witness ==
    /\ StageEnded("record", "nonzero")
    /\ pc = "Aborted"
    /\ prep["self"] = "reused"
    /\ files = {}

====
